---------------------------- MODULE Spec2Model ----------------------------
(***************************************************************************)
(* supercronic: the per-job scheduling loop (startFunc), the invocation    *)
(* wrapper with its stall monitor (StartJob, monitorJob), the process      *)
(* runner with its two stream drains (runJob, startReaderDrain) and the    *)
(* signal-driven lifecycle of main.                                        *)
(*                                                                         *)
(* Time is a discrete clock `now`.  Code steps take no time: the clock     *)
(* advances only when no goroutine has a step it can take (Tick), so a     *)
(* select that is blocked is resolved by the first event that arrives,     *)
(* and two events of the same tick are unordered (a select that finds two  *)
(* cases ready takes either one, as Go's select does).  What takes time is *)
(* sleeping, the child process, and the arrival of signals.                *)
(***************************************************************************)
EXTENDS Integers, Sequences, FiniteSets, TLC

VARIABLES
    now,            \* wall clock, time.Now()
    overlapping,    \* main: the -overlapping flag
    tab,            \* main: the jobs of the crontab file
    mainPc,         \* main: position in the for-true loop
    gen,            \* main: number of the current generation (reload cycle)
    termChan,       \* main: buffer of the current termChan (capacity 1)
    termSig,        \* main: the signal received from termChan
    nsig,           \* number of signals delivered so far (model bound)
    exitCtx,        \* main: "live" or "done" (notifyExit was called)
    wg,             \* main: counter of the WaitGroup the loops register with
    loop,           \* startFunc: per job, the goroutine's locals
    inv,            \* per job, the invocations fired so far, in firing order
    overdue,        \* per job, the "job took too long" warnings logged
    rpc,            \* runJob: position
    rerr,           \* runJob: the error it returns
    child,          \* runJob: the process started by cmd.Start()
    pipe,           \* per channel, the bytes in the kernel's pipe buffer
    written,        \* per channel, all the bytes the child has written
    drain,          \* startReaderDrain: per channel, the goroutine's state
    drainWg,        \* runJob: counter of its WaitGroup
    rlog,           \* per channel field, the records sent to the logger
    nfail           \* number of failed pipe reads so far (model bound)

schedVars == <<now, overlapping, tab, mainPc, gen, termChan, termSig, nsig,
               exitCtx, wg, loop, inv, overdue>>

runVars == <<rpc, rerr, child, pipe, written, drain, drainWg, rlog, nfail>>

vars == <<schedVars, runVars>>

---------------------------------------------------------------------------
(* Bounds of the model *)

MaxTime == 4        \* the clock stops here
MaxIter == 2        \* invocations one loop may fire in one generation
MaxGen == 2         \* generations main may start (1 = no reload)
MaxSignals == 2     \* signals the environment delivers

Jobs == {1, 2}

\* The schedules of the crontab's jobs: job 1 fires every tick, job 2
\* every third tick.
Schedule == <<1, 3>>

Signals == {"SIGINT", "SIGTERM", "SIGUSR2"}

MaxBytes == 3       \* bytes the child writes to stdout
MaxErrBytes == 1    \* bytes the child writes to stderr
PipeCap == 2        \* capacity of a pipe buffer, in bytes
MaxReadFails == 1   \* pipe reads that fail

\* The size of a drain's bufio.Reader, in bytes
READ_BUFFER_SIZE == 2

Channels == {"stdout", "stderr"}

\* The line terminator; every other byte is a positive number
NL == 0

---------------------------------------------------------------------------
(* crontab.Expression.Next: the first fire time strictly after t *)

Next(expression, t) == ((t \div expression) + 1) * expression

---------------------------------------------------------------------------
(* Initial state: main is about to enter its for-true loop *)

NoLoop == [pc |-> "none", nextRun |-> 0, cronIteration |-> 0, jobWg |-> 0,
           timer |-> 0]

\* No child, no drain, nothing logged
RunIdle ==
    /\ rerr = "none"
    /\ child = [pc |-> "none", status |-> 0, open |-> {}]
    /\ pipe = [ch \in Channels |-> <<>>]
    /\ written = [ch \in Channels |-> <<>>]
    /\ drain = [ch \in Channels |->
                 [pc |-> "none", buf |-> <<>>, cause |-> "none",
                  failed |-> FALSE]]
    /\ drainWg = 0
    /\ rlog = [ch \in Channels |-> <<>>]
    /\ nfail = 0

\* main has read a crontab with these jobs
InitTab(jobs) ==
    /\ now = 0
    /\ overlapping \in BOOLEAN
    /\ tab = jobs
    /\ mainPc = "read"
    /\ gen = 1
    /\ termChan = <<>>
    /\ termSig = "none"
    /\ nsig = 0
    /\ exitCtx = "live"
    /\ wg = 0
    /\ loop = [j \in Jobs |-> NoLoop]
    /\ inv = [j \in Jobs |-> <<>>]
    /\ overdue = [j \in Jobs |-> <<>>]

\* A crontab of one job; runJob is not looked into
Init == InitTab({1}) /\ RunIdle /\ rpc = "idle"

\* A crontab of two jobs
InitJobs == InitTab(Jobs) /\ RunIdle /\ rpc = "idle"

---------------------------------------------------------------------------
(* Records *)

\* One invocation of a job: the goroutine (or call) runThisJob, the child
\* that runJob starts for it, and its monitorJob goroutine.
NewInvocation(iteration, firedFor, firedAt) ==
    [iteration |-> iteration,   \* the cronIteration passed to runThisJob
     firedFor  |-> firedFor,    \* nextRun when the loop fired it
     firedAt   |-> firedAt,     \* time.Now() when the loop fired it
     pc        |-> "spawned",   \* "spawned", "running", "done"
     t0        |-> 0,           \* the t0 that fn received
     err       |-> "none",      \* what runJob returned: "none", "spawn", "exit"
     retAt     |-> 0,           \* time.Now() when runJob returned
     mon       |-> "none",      \* monitorJob: "none", "select", "done"
     monT      |-> 0,           \* monitorJob: t
     cancelled |-> FALSE,       \* cancelMonitor was called
     warns     |-> <<>>]        \* the "still running" warnings logged

Invocations == {<<j, i>> : j \in Jobs, i \in 1..MaxIter}

\* runJob's result and the deferred cancelMonitor(): the invocation is over.
\* A monitor blocked in its select with its timer still pending is woken by
\* ctx.Done() and returns; one whose timer has expired at this very instant
\* finds both cases ready (MonitorWarn, MonitorDone).
Finish(r, err, t) ==
    [r EXCEPT !.pc = "done", !.err = err, !.retAt = t, !.cancelled = TRUE,
              !.mon = IF t < r.monT THEN "done" ELSE @]

\* Mutant: monitorJob waits for t0 itself first, not for Next(t0).
BeginMonitorAtT0(r, expression, t0, ok, t) ==
    LET b == [r EXCEPT !.t0 = t0, !.mon = "select", !.monT = t0,
                       !.pc = "running"]
    IN IF ok THEN b ELSE [b EXCEPT !.pc = "done", !.err = "spawn",
                                   !.retAt = t, !.cancelled = TRUE]

\* fn(nextRun, jobLogger) starts: it receives t0, starts monitorJob (whose
\* first step is t = expression.Next(t0)) and calls runJob, which starts the
\* child (ok) or fails to acquire a pipe or to start it and returns at once.
Begin(r, expression, t0, ok, t) ==
    LET b == [r EXCEPT !.t0 = t0, !.mon = "select",
                       !.monT = Next(expression, t0), !.pc = "running"]
    IN IF ok THEN b ELSE Finish(b, "spawn", t)

\* Mutant: the loop goes back to its select without a new nextRun.
AfterRunSameNextRun(l) == [l EXCEPT !.cronIteration = @ + 1, !.pc = "select"]

\* Mutant: the loop forgets cronIteration++.
AfterRunNoIncrement(l) == [l EXCEPT !.pc = "top"]

\* What the loop does once runThisJob has been started with `go` or has
\* returned from the plain call: cronIteration++, back to the top.
AfterRun(l) == [l EXCEPT !.cronIteration = @ + 1, !.pc = "top"]

\* Mutant: the loop gives up when an invocation has returned.
ReturnedStops(l) ==
    [l EXCEPT !.jobWg = @ - 1, !.pc = IF @ = "call" THEN "draining" ELSE @]

\* jobWg.Done(), deferred in runThisJob; under the serialized policy the
\* loop is inside the call and goes on when it returns.
Returned(l) ==
    LET d == [l EXCEPT !.jobWg = @ - 1]
    IN IF l.pc = "call" THEN AfterRun(d) ELSE d

---------------------------------------------------------------------------
(* What each goroutine can do at the current instant *)

\* Mutant: the loop's select has no case for the token.
DoneNever == FALSE

\* The cases of the loop's select that are ready
DoneReady == exitCtx = "done"

TimerReady(j) == now >= loop[j].timer /\ loop[j].cronIteration < MaxIter

\* Mutant: no deferred jobWg.Wait(), the loop deregisters at once.
JobWgNoWait(j) == TRUE

\* The deferred jobWg.Wait() has nothing left to wait for
JobWgWait(j) == loop[j].jobWg = 0

MainReady ==
    \/ mainPc = "read"
    \/ mainPc = "sigwait" /\ termChan # <<>>
    \/ mainPc = "wait" /\ wg = 0

LoopReady(j) ==
    \/ loop[j].pc \in {"init", "top"}
    \/ loop[j].pc = "select" /\ (DoneReady \/ TimerReady(j))
    \/ loop[j].pc = "draining" /\ JobWgWait(j)

InvReady(j, i) ==
    \/ inv[j][i].pc = "spawned"
    \/ inv[j][i].mon = "select"
         /\ (inv[j][i].cancelled \/ now >= inv[j][i].monT)

\* No goroutine has a step to take: all are blocked or gone.
Quiescent ==
    /\ ~MainReady
    /\ \A j \in Jobs : ~LoopReady(j)
    /\ \A j \in Jobs : \A i \in 1..Len(inv[j]) : ~InvReady(j, i)

---------------------------------------------------------------------------
(* main, src/main.go *)

\* Top of the for-true loop up to the creation of termChan: a fresh
\* WaitGroup and context, one StartJob (wg.Add(1); go func) per job.
MainStart ==
    /\ mainPc = "read"
    /\ exitCtx' = "live"
    /\ wg' = Cardinality(tab)
    /\ loop' = [j \in Jobs |->
                 IF j \in tab THEN [NoLoop EXCEPT !.pc = "init"] ELSE NoLoop]
    /\ inv' = [j \in Jobs |-> <<>>]
    /\ overdue' = [j \in Jobs |-> <<>>]
    /\ termChan' = <<>>
    /\ termSig' = "none"
    /\ mainPc' = "sigwait"
    /\ UNCHANGED <<now, overlapping, tab, gen, nsig>>
    /\ UNCHANGED runVars

\* The operating system delivers a signal: a non-blocking send on the
\* channel signal.Notify registered, dropped when its buffer is full.
Deliver(s) ==
    /\ mainPc \in {"sigwait", "wait"}
    /\ nsig < MaxSignals
    /\ s = "SIGUSR2" => gen < MaxGen
    /\ nsig' = nsig + 1
    /\ termChan' = IF Len(termChan) < 1 THEN Append(termChan, s) ELSE termChan

\* A signal arrives while every goroutine is blocked,
Signal(s) ==
    /\ Quiescent
    /\ Deliver(s)
    /\ UNCHANGED <<now, overlapping, tab, mainPc, gen, termSig, exitCtx, wg, loop,
                   inv, overdue>>
    /\ UNCHANGED runVars

\* Mutant: cancelling the context kills the children still running (as
\* exec.CommandContext would).
NotifyExitKills(invs) ==
    [j \in Jobs |-> [i \in 1..Len(invs[j]) |->
        IF invs[j][i].pc = "running"
          THEN [invs[j][i] EXCEPT !.pc = "done", !.err = "exit", !.retAt = now,
                                  !.cancelled = TRUE]
          ELSE invs[j][i]]]

\* What notifyExit() does to the invocations in flight: nothing.
NotifyExit(invs) == invs

\* termSig := <-termChan; notifyExit()
MainSignal ==
    /\ mainPc = "sigwait"
    /\ termChan # <<>>
    /\ termSig' = Head(termChan)
    /\ termChan' = Tail(termChan)
    /\ exitCtx' = "done"
    /\ inv' = NotifyExit(inv)
    /\ mainPc' = "wait"
    /\ UNCHANGED <<now, overlapping, tab, gen, nsig, wg, loop, overdue>>
    /\ UNCHANGED runVars

\* Mutant: main goes round its loop after any signal.
ReloadsAlways(sig) == TRUE

\* if termSig != syscall.SIGUSR2 { break }
Reloads(sig) == sig = "SIGUSR2"

\* wg.Wait() returns; break unless the signal was SIGUSR2
MainWait ==
    /\ mainPc = "wait"
    /\ wg = 0
    /\ IF ~Reloads(termSig)
         THEN mainPc' = "exit" /\ gen' = gen
         ELSE mainPc' = "read" /\ gen' = gen + 1
    /\ UNCHANGED <<now, overlapping, tab, termChan, termSig, nsig, exitCtx, wg,
                   loop, inv, overdue>>
    /\ UNCHANGED runVars

---------------------------------------------------------------------------
(* startFunc: the goroutine of one job *)

\* var cronIteration uint64; nextRun := time.Now()
LoopStart(j) ==
    /\ loop[j].pc = "init"
    /\ loop' = [loop EXCEPT ![j].nextRun = now, ![j].cronIteration = 0,
                            ![j].pc = "top"]
    /\ UNCHANGED <<now, overlapping, tab, mainPc, gen, termChan, termSig, nsig,
                   exitCtx, wg, inv, overdue>>
    /\ UNCHANGED runVars

\* Mutant: the overdue branch keeps the missed fire time.
OverdueKeep(missed, t) == missed

\* The overdue branch: nextRun = time.Now()
OverdueReset(missed, t) == t

\* Mutant: the loop has no overdue branch.
OverdueNever(delay) == FALSE

\* if delay < 0
Overdue(delay) == delay < 0

\* Top of the for loop: nextRun = expression.Next(nextRun), the delay, and
\* the overdue branch (warn, nextRun = time.Now(), continue).
LoopNext(j) ==
    /\ loop[j].pc = "top"
    /\ LET nr == Next(Schedule[j], loop[j].nextRun)
           delay == nr - now
       IN IF Overdue(delay)
            THEN /\ overdue' = [overdue EXCEPT ![j] =
                       Append(@, [missed |-> nr, late |-> -delay, at |-> now,
                                  fired |-> Len(inv[j])])]
                 /\ loop' = [loop EXCEPT ![j].nextRun = OverdueReset(nr, now)]
            ELSE /\ loop' = [loop EXCEPT ![j].nextRun = nr,
                                         ![j].timer = now + delay,
                                         ![j].pc = "select"]
                 /\ UNCHANGED overdue
    /\ UNCHANGED <<now, overlapping, tab, mainPc, gen, termChan, termSig, nsig,
                   exitCtx, wg, inv>>
    /\ UNCHANGED runVars

\* select, case <-exitCtx.Done(): return (the deferred calls run next)
LoopExit(j) ==
    /\ loop[j].pc = "select"
    /\ DoneReady
    /\ loop' = [loop EXCEPT ![j].pc = "draining"]
    /\ UNCHANGED <<now, overlapping, tab, mainPc, gen, termChan, termSig, nsig,
                   exitCtx, wg, inv, overdue>>
    /\ UNCHANGED runVars

\* Mutant: the loop never waits for the invocation it starts.
WaitsNever(ov) == FALSE

\* Mutant: the loop waits for the invocation it starts under both policies.
WaitsAlways(ov) == TRUE

\* Whether the loop waits for the invocation it starts (the plain call)
\* or goes on at once (go runThisJob).
Waits(ov) == ~ov

\* select, case <-time.After(delay); jobWg.Add(1); then
\* go runThisJob(cronIteration) under the overlapping policy,
LoopFireGo(j) ==
    /\ loop[j].pc = "select"
    /\ TimerReady(j)
    /\ ~Waits(overlapping)
    /\ inv' = [inv EXCEPT ![j] = Append(@,
                 NewInvocation(loop[j].cronIteration, loop[j].nextRun, now))]
    /\ loop' = [loop EXCEPT ![j] = AfterRun([@ EXCEPT !.jobWg = @ + 1])]
    /\ UNCHANGED <<now, overlapping, tab, mainPc, gen, termChan, termSig, nsig,
                   exitCtx, wg, overdue>>
    /\ UNCHANGED runVars

\* or runThisJob(cronIteration) under the serialized policy: the loop is
\* inside the call until the invocation returns.
LoopFireCall(j, ok) ==
    /\ loop[j].pc = "select"
    /\ TimerReady(j)
    /\ Waits(overlapping)
    /\ inv' = [inv EXCEPT ![j] = Append(@,
                 Begin(NewInvocation(loop[j].cronIteration, loop[j].nextRun, now),
                       Schedule[j], loop[j].nextRun, ok, now))]
    /\ loop' = [loop EXCEPT ![j] =
                 IF ok THEN [@ EXCEPT !.jobWg = @ + 1, !.pc = "call"]
                       ELSE AfterRun(@)]
    /\ UNCHANGED <<now, overlapping, tab, mainPc, gen, termChan, termSig, nsig,
                   exitCtx, wg, overdue>>
    /\ UNCHANGED runVars

\* The deferred calls, last registered first: jobWg.Wait(), then wg.Done()
LoopDrain(j) ==
    /\ loop[j].pc = "draining"
    /\ JobWgWait(j)
    /\ wg' = wg - 1
    /\ loop' = [loop EXCEPT ![j].pc = "stopped"]
    /\ UNCHANGED <<now, overlapping, tab, mainPc, gen, termChan, termSig, nsig,
                   exitCtx, inv, overdue>>
    /\ UNCHANGED runVars

---------------------------------------------------------------------------
(* StartJob's runThisJob(t0, jobLogger), runJob and monitorJob *)

\* The goroutine started by go runThisJob(cronIteration) runs: the closure
\* reads the captured variable nextRun as it is at this moment.
InvBegin(j, i, ok) ==
    /\ i <= Len(inv[j])
    /\ inv[j][i].pc = "spawned"
    /\ inv' = [inv EXCEPT ![j][i] =
                 Begin(@, Schedule[j], loop[j].nextRun, ok, now)]
    /\ loop' = [loop EXCEPT ![j] = IF ok THEN @ ELSE Returned(@)]
    /\ UNCHANGED <<now, overlapping, tab, mainPc, gen, termChan, termSig, nsig,
                   exitCtx, wg, overdue>>
    /\ UNCHANGED runVars

\* The child exits, with status 0 or not: both drains reach end of stream,
\* wg.Wait() and cmd.Wait() return and runJob returns; fn logs the result,
\* the deferred cancelMonitor() and jobWg.Done() run.
ChildExit(j, i, status) ==
    /\ i <= Len(inv[j])
    /\ inv[j][i].pc = "running"
    /\ inv' = [inv EXCEPT ![j][i] =
                 Finish(@, IF status = 0 THEN "none" ELSE "exit", now)]
    /\ loop' = [loop EXCEPT ![j] = Returned(@)]
    /\ UNCHANGED <<now, overlapping, tab, mainPc, gen, termChan, termSig, nsig,
                   exitCtx, wg, overdue>>
    /\ UNCHANGED runVars

\* monitorJob's select, case <-time.After(time.Until(t)): warn, then
\* t = expression.Next(t)
MonitorWarn(j, i) ==
    /\ i <= Len(inv[j])
    /\ inv[j][i].mon = "select"
    /\ now >= inv[j][i].monT
    /\ inv' = [inv EXCEPT ![j][i].warns = Append(@,
                     [t |-> inv[j][i].monT, at |-> now,
                      running |-> inv[j][i].pc # "done"]),
                          ![j][i].monT = Next(Schedule[j], @)]
    /\ UNCHANGED <<now, overlapping, tab, mainPc, gen, termChan, termSig, nsig,
                   exitCtx, wg, loop, overdue>>
    /\ UNCHANGED runVars

\* monitorJob's select, case <-ctx.Done(): return
MonitorDone(j, i) ==
    /\ i <= Len(inv[j])
    /\ inv[j][i].mon = "select"
    /\ inv[j][i].cancelled
    /\ inv' = [inv EXCEPT ![j][i].mon = "done"]
    /\ UNCHANGED <<now, overlapping, tab, mainPc, gen, termChan, termSig, nsig,
                   exitCtx, wg, loop, overdue>>
    /\ UNCHANGED runVars

---------------------------------------------------------------------------
(* The clock *)

\* The clock advances when no goroutine has a step left at this instant.
Tick ==
    /\ now < MaxTime
    /\ mainPc # "exit"
    /\ Quiescent
    /\ now' = now + 1
    /\ UNCHANGED <<overlapping, tab, mainPc, gen, termChan, termSig, nsig,
                   exitCtx, wg, loop, inv, overdue>>
    /\ UNCHANGED runVars

\* or at the very instant the clock reaches: main's receive then races
\* with whatever the timers of that instant wake up.
TickSignal(s) ==
    /\ now < MaxTime
    /\ Quiescent
    /\ now' = now + 1
    /\ Deliver(s)
    /\ UNCHANGED <<overlapping, tab, mainPc, gen, termSig, exitCtx, wg, loop,
                   inv, overdue>>
    /\ UNCHANGED runVars

---------------------------------------------------------------------------
(* The scheduler *)

SchedNext ==
    \/ MainStart
    \/ \E s \in Signals : Signal(s)
    \/ MainSignal
    \/ MainWait
    \/ \E j \in Jobs : LoopStart(j)
    \/ \E j \in Jobs : LoopNext(j)
    \/ \E j \in Jobs : LoopExit(j)
    \/ \E j \in Jobs : LoopFireGo(j)
    \/ \E j \in Jobs : \E ok \in BOOLEAN : LoopFireCall(j, ok)
    \/ \E j \in Jobs : LoopDrain(j)
    \/ \E <<j, i>> \in Invocations : \E ok \in BOOLEAN : InvBegin(j, i, ok)
    \/ \E <<j, i>> \in Invocations : \E st \in {0, 1} : ChildExit(j, i, st)
    \/ \E <<j, i>> \in Invocations : MonitorWarn(j, i)
    \/ \E <<j, i>> \in Invocations : MonitorDone(j, i)
    \/ Tick
    \/ \E s \in Signals : TickSignal(s)

Spec == Init /\ [][SchedNext]_vars

SpecJobs == InitJobs /\ [][SchedNext]_vars

\* Scheduling: a goroutine that can take a step takes one (main; a loop,
\* whose select takes one of its ready cases; a dispatched runThisJob), and
\* every child that was started exits.  Nothing is assumed of signals or of
\* the clock.
Fairness ==
    /\ WF_vars(MainStart)
    /\ WF_vars(MainSignal)
    /\ WF_vars(MainWait)
    /\ \A j \in Jobs :
          /\ WF_vars(LoopStart(j))
          /\ WF_vars(LoopNext(j))
          /\ WF_vars(LoopExit(j) \/ LoopFireGo(j)
                        \/ \E ok \in BOOLEAN : LoopFireCall(j, ok))
          /\ WF_vars(LoopDrain(j))
    /\ \A <<j, i>> \in Invocations :
          /\ WF_vars(\E ok \in BOOLEAN : InvBegin(j, i, ok))
          /\ WF_vars(\E st \in {0, 1} : ChildExit(j, i, st))

SpecLive == Init /\ [][SchedNext]_vars /\ Fairness

---------------------------------------------------------------------------
(* runJob and startReaderDrain: one call of runJob in detail *)

\* Mutant: the two loggers are exchanged.
LoggerSwapped(ch) == IF ch = "stdout" THEN "stderr" ELSE "stdout"

\* stdoutLogger / stderrLogger: the channel field of the logger that the
\* drain of stream ch is given
Logger(ch) == ch

\* The drain of stream ch logs a record: it is appended to the records
\* that carry the channel field of the drain's logger.
Log(ch, level, line, nl) ==
    [rlog EXCEPT ![Logger(ch)] =
        Append(@, [level |-> level, line |-> line, nl |-> nl])]

\* Mutant: cmd.Wait()'s error is dropped.
WaitErrorIgnored(status) == "none"

\* cmd.Wait(): an error unless the child exited with status 0
WaitError(status) == IF status = 0 THEN "none" ELSE "exit"

\* runJob up to cmd.Start(): StdoutPipe, StderrPipe or Start fails and
\* runJob returns that error, or the child runs with both pipes open.
RunStart(outcome) ==
    /\ rpc = "start"
    /\ IF outcome = "ok"
         THEN /\ child' = [pc |-> "running", status |-> 0, open |-> Channels]
              /\ rpc' = "drains"
              /\ rerr' = rerr
         ELSE /\ rpc' = "returned"
              /\ rerr' = outcome
              /\ child' = child
    /\ UNCHANGED <<pipe, written, drain, drainWg, rlog, nfail>>
    /\ UNCHANGED schedVars

\* startReaderDrain for stdout, then for stderr: wg.Add(1) and go func
RunDrains ==
    /\ rpc = "drains"
    /\ drainWg' = drainWg + Cardinality(Channels)
    /\ drain' = [ch \in Channels |->
                  [pc |-> "read", buf |-> <<>>, cause |-> "none",
                   failed |-> FALSE]]
    /\ rpc' = "wgwait"
    /\ UNCHANGED <<rerr, child, pipe, written, rlog, nfail>>
    /\ UNCHANGED schedVars

\* Mutant: runJob does not wait for the drains.
DrainsNotAwaited == TRUE

\* wg.Wait() has nothing left to wait for
DrainsDone == drainWg = 0

\* wg.Wait() returns
RunWgWait ==
    /\ rpc = "wgwait"
    /\ DrainsDone
    /\ rpc' = "cmdwait"
    /\ UNCHANGED <<rerr, child, pipe, written, drain, drainWg, rlog, nfail>>
    /\ UNCHANGED schedVars

\* cmd.Wait() returns once the child has exited; runJob returns
RunCmdWait ==
    /\ rpc = "cmdwait"
    /\ child.pc = "exited"
    /\ rerr' = WaitError(child.status)
    /\ rpc' = "returned"
    /\ UNCHANGED <<child, pipe, written, drain, drainWg, rlog, nfail>>
    /\ UNCHANGED schedVars

(* The child *)

\* The read end of the pipe is open: not yet closed by its drain
ReadEndOpen(ch) == drain[ch].pc # "done"

\* The number of bytes the child may write to a stream
Quota(ch) == IF ch = "stdout" THEN MaxBytes ELSE MaxErrBytes

\* The child writes one byte, a line terminator or the next data byte;
\* the write blocks while the pipe is full.
ChildWrites(ch, nl) ==
    /\ child.pc = "running"
    /\ ch \in child.open
    /\ ReadEndOpen(ch)
    /\ Len(written[ch]) < Quota(ch)
    /\ Len(pipe[ch]) < PipeCap
    /\ LET b == IF nl THEN NL ELSE Len(written[ch]) + 1
       IN /\ pipe' = [pipe EXCEPT ![ch] = Append(@, b)]
          /\ written' = [written EXCEPT ![ch] = Append(@, b)]
    /\ UNCHANGED <<rpc, rerr, child, drain, drainWg, rlog, nfail>>
    /\ UNCHANGED schedVars

\* The child closes one of its output streams and goes on.
ChildCloses(ch) ==
    /\ child.pc = "running"
    /\ ch \in child.open
    /\ child' = [child EXCEPT !.open = @ \ {ch}]
    /\ UNCHANGED <<rpc, rerr, pipe, written, drain, drainWg, rlog, nfail>>
    /\ UNCHANGED schedVars

\* The child exits (or is killed): its streams are closed with it.
ChildExits(status) ==
    /\ child.pc = "running"
    /\ child' = [pc |-> "exited", status |-> status, open |-> {}]
    /\ UNCHANGED <<rpc, rerr, pipe, written, drain, drainWg, rlog, nfail>>
    /\ UNCHANGED schedVars

(* One drain: the for loop around bufReader.ReadLine() *)

\* Mutant: the drain of stdout is run when that of stderr is done.
RunsInTurn(ch) == ch = "stderr" \/ drain["stderr"].pc = "done"

\* go func(): each drain is a goroutine of its own and runs whatever the
\* other one does
Runs(ch) == TRUE

HasNL(buf) == \E k \in 1..Len(buf) : buf[k] = NL

FirstNL(buf) == CHOOSE k \in 1..Len(buf) :
                   buf[k] = NL /\ \A m \in 1..(k - 1) : buf[m] # NL

\* ReadLine has to read from the pipe: no terminator buffered, buffer not full
NeedsFill(ch) ==
    /\ drain[ch].pc = "read"
    /\ ~HasNL(drain[ch].buf)
    /\ Len(drain[ch].buf) < READ_BUFFER_SIZE

\* End of stream: nothing in the pipe and every write end closed
AtEOF(ch) == pipe[ch] = <<>> /\ ch \notin child.open /\ child.pc # "none"

Min(a, b) == IF a < b THEN a ELSE b

\* Mutant: the drain does not warn about a line that exceeded the buffer.
AfterInfoNoWarn(isPrefix) == "read"

\* After Info(line): if isPrefix, the warning; then the next ReadLine
AfterInfo(isPrefix) == IF isPrefix THEN "warn" ELSE "read"

\* bufio's fill: one read moves what the pipe holds into the free space
DrainFill(ch) ==
    /\ Runs(ch)
    /\ NeedsFill(ch)
    /\ pipe[ch] # <<>>
    /\ LET n == Min(Len(pipe[ch]), READ_BUFFER_SIZE - Len(drain[ch].buf))
       IN /\ drain' = [drain EXCEPT ![ch].buf = @ \o SubSeq(pipe[ch], 1, n)]
          /\ pipe' = [pipe EXCEPT ![ch] = SubSeq(@, n + 1, Len(@))]
    /\ UNCHANGED <<rpc, rerr, child, written, drainWg, rlog, nfail>>
    /\ UNCHANGED schedVars

\* ReadLine returns a whole line, its terminator dropped: Info(line)
DrainLine(ch) ==
    /\ Runs(ch)
    /\ drain[ch].pc = "read"
    /\ HasNL(drain[ch].buf)
    /\ LET k == FirstNL(drain[ch].buf)
       IN /\ rlog' = Log(ch, "info",
                                  SubSeq(drain[ch].buf, 1, k - 1), TRUE)
          /\ drain' = [drain EXCEPT ![ch].buf = SubSeq(@, k + 1, Len(@)),
                                    ![ch].pc = AfterInfo(FALSE)]
    /\ UNCHANGED <<rpc, rerr, child, pipe, written, drainWg, nfail>>
    /\ UNCHANGED schedVars

\* ReadLine returns a full buffer without terminator, isPrefix: Info(line)
DrainPrefix(ch) ==
    /\ Runs(ch)
    /\ drain[ch].pc = "read"
    /\ ~HasNL(drain[ch].buf)
    /\ Len(drain[ch].buf) >= READ_BUFFER_SIZE
    /\ rlog' = Log(ch, "info", drain[ch].buf, FALSE)
    /\ drain' = [drain EXCEPT ![ch].buf = <<>>, ![ch].pc = AfterInfo(TRUE)]
    /\ UNCHANGED <<rpc, rerr, child, pipe, written, drainWg, nfail>>
    /\ UNCHANGED schedVars

\* if isPrefix: Warn("last line exceeded buffer size, continuing...")
DrainWarn(ch) ==
    /\ Runs(ch)
    /\ drain[ch].pc = "warn"
    /\ rlog' = Log(ch, "warn", <<>>, FALSE)
    /\ drain' = [drain EXCEPT ![ch].pc = "read"]
    /\ UNCHANGED <<rpc, rerr, child, pipe, written, drainWg, nfail>>
    /\ UNCHANGED schedVars

\* The read ends the stream ("eof": io.EOF) or fails ("other": an
\* unexpected error) while bytes without terminator are buffered: ReadLine
\* returns them as a line and no error: Info(line)
DrainRest(ch, cause) ==
    /\ Runs(ch)
    /\ NeedsFill(ch)
    /\ drain[ch].buf # <<>>
    /\ IF cause = "eof" THEN AtEOF(ch) /\ nfail' = nfail
                        ELSE nfail < MaxReadFails /\ nfail' = nfail + 1
    /\ rlog' = Log(ch, "info", drain[ch].buf, FALSE)
    /\ drain' = [drain EXCEPT ![ch].buf = <<>>, ![ch].pc = AfterInfo(FALSE),
                              ![ch].failed = @ \/ cause # "eof"]
    /\ UNCHANGED <<rpc, rerr, child, pipe, written, drainWg>>
    /\ UNCHANGED schedVars

\* ReadLine returns an error: the loop breaks (an error other than EOF and
\* ErrClosed is logged), the deferred function closes the reader and calls
\* wg.Done().  No read returns os.ErrClosed here: the reader is closed by
\* its own drain only, and cmd.Wait() is called after both drains are done.
DrainEnd(ch, cause) ==
    /\ Runs(ch)
    /\ NeedsFill(ch)
    /\ drain[ch].buf = <<>>
    /\ IF cause = "eof" THEN AtEOF(ch) /\ nfail' = nfail
                        ELSE nfail < MaxReadFails /\ nfail' = nfail + 1
    /\ rlog' = IF cause = "other" THEN Log(ch, "error", <<>>, FALSE)
                                  ELSE rlog
    /\ drain' = [drain EXCEPT ![ch].pc = "done", ![ch].cause = cause,
                              ![ch].failed = @ \/ cause # "eof"]
    /\ pipe' = [pipe EXCEPT ![ch] = <<>>]
    /\ drainWg' = drainWg - 1
    /\ UNCHANGED <<rpc, rerr, child, written>>
    /\ UNCHANGED schedVars

Causes == {"eof", "other"}

RunNext ==
    \/ \E o \in {"ok", "stdoutpipe", "stderrpipe", "start"} : RunStart(o)
    \/ RunDrains
    \/ RunWgWait
    \/ RunCmdWait
    \/ \E ch \in Channels : \E nl \in BOOLEAN : ChildWrites(ch, nl)
    \/ \E ch \in Channels : ChildCloses(ch)
    \/ \E st \in {0, 1} : ChildExits(st)
    \/ \E ch \in Channels : DrainFill(ch)
    \/ \E ch \in Channels : DrainLine(ch)
    \/ \E ch \in Channels : DrainPrefix(ch)
    \/ \E ch \in Channels : DrainWarn(ch)
    \/ \E ch \in Channels : \E c \in Causes : DrainRest(ch, c)
    \/ \E ch \in Channels : \E c \in Causes : DrainEnd(ch, c)

\* runJob is called once; the scheduler is not looked into
InitRun == InitTab({}) /\ overlapping = FALSE /\ RunIdle /\ rpc = "start"

SpecRun == InitRun /\ [][RunNext]_vars

\* The child is inside a write that a full pipe blocks
Blocked ==
    \E ch \in child.open : ReadEndOpen(ch) /\ Len(pipe[ch]) >= PipeCap

\* The child exits of its own accord: not from inside a blocked write
ChildFinishes == ~Blocked /\ \E st \in {0, 1} : ChildExits(st)

\* Scheduling: runJob and the drains take the steps they can take, a read
\* at end of stream returns io.EOF, and a child that is not blocked in a
\* write comes to its exit.  Nothing is assumed of failing reads.
RunFairness ==
    /\ WF_vars(\E o \in {"ok", "stdoutpipe", "stderrpipe", "start"} :
                  RunStart(o))
    /\ WF_vars(RunDrains)
    /\ WF_vars(RunWgWait)
    /\ WF_vars(RunCmdWait)
    /\ WF_vars(ChildFinishes)
    /\ \A ch \in Channels :
          /\ WF_vars(DrainFill(ch))
          /\ WF_vars(DrainLine(ch))
          /\ WF_vars(DrainPrefix(ch))
          /\ WF_vars(DrainWarn(ch))
          /\ WF_vars(DrainRest(ch, "eof"))
          /\ WF_vars(DrainEnd(ch, "eof"))

SpecRunLive == InitRun /\ [][RunNext]_vars /\ RunFairness

---------------------------------------------------------------------------
(* Properties of the scheduler *)

InFlight(j) == {i \in 1..Len(inv[j]) : inv[j][i].pc # "done"}

AllDone == \A j \in Jobs : InFlight(j) = {}

\* The k-th fire time after t
RECURSIVE NextK(_, _, _)
NextK(expression, t, k) ==
    IF k = 0 THEN t ELSE NextK(expression, Next(expression, t), k - 1)

\* C1: under the serialized policy at most one invocation of a job is
\* executing at any instant.
C1_AtMostOneInFlight ==
    ~overlapping => \A j \in Jobs : Cardinality(InFlight(j)) <= 1

\* C1 witness: a serialized job is running its second invocation after the
\* first one returned.
C1_Witness ==
    /\ ~overlapping
    /\ \E j \in Jobs : Len(inv[j]) = 2 /\ InFlight(j) = {2}

\* C2: the invocations of a job carry the iteration numbers 0, 1, 2, ... in
\* firing order, under both policies.
C2_IterationsInOrder ==
    \A j \in Jobs : \A i \in 1..Len(inv[j]) : inv[j][i].iteration = i - 1

\* C2 witness: two invocations of one job run concurrently.
C2_Witness ==
    /\ overlapping
    /\ \E j \in Jobs : Len(inv[j]) = 2 /\ InFlight(j) = {1, 2}
                       /\ inv[j][1].pc = "running" /\ inv[j][2].pc = "running"

\* C3: main's wg.Wait() has returned only if no invocation is running, and
\* a loop has deregistered (wg.Done()) only if every invocation it
\* dispatched has returned.
C3_WaitCoversInvocations ==
    /\ mainPc \in {"exit", "read"} => AllDone
    /\ \A j \in Jobs : loop[j].pc = "stopped" => InFlight(j) = {}

\* C3 witness: the token has fired, main is in wg.Wait() and a loop that
\* has left its for loop is held back by two invocations still in flight.
C3_Witness ==
    /\ mainPc = "wait"
    /\ exitCtx = "done"
    /\ \E j \in Jobs : loop[j].pc = "draining" /\ Cardinality(InFlight(j)) = 2

\* C4: once the cancellation token has fired, no loop starts another
\* invocation.
C4_NoFireAfterToken ==
    [][exitCtx = "done" =>
         \A j \in Jobs : Len(inv'[j]) <= Len(inv[j])]_vars

\* C5 as stated: after an overdue warning the next fire of the job occurs
\* at the time of the check.
C5_NextFireAtNow ==
    \A j \in Jobs : \A k \in 1..Len(overdue[j]) :
        LET o == overdue[j][k]
        IN Len(inv[j]) > o.fired => inv[j][o.fired + 1].firedAt = o.at

\* C5 amended: a fire time found in the past is never fired; the loop
\* restarts from the time of the check and the next fire of the job is the
\* schedule's first fire time strictly after that check.
C5_NextFireAfterNow ==
    \A j \in Jobs : \A k \in 1..Len(overdue[j]) :
        LET o == overdue[j][k]
        IN /\ o.missed < o.at
           /\ \A i \in 1..Len(inv[j]) : inv[j][i].firedFor # o.missed
           /\ k < Len(overdue[j]) => overdue[j][k + 1].fired > o.fired
           /\ Len(inv[j]) > o.fired =>
                /\ inv[j][o.fired + 1].firedFor = Next(Schedule[j], o.at)
                /\ inv[j][o.fired + 1].firedAt = Next(Schedule[j], o.at)

\* C5 witness: a job was found overdue and has fired again since.
C5_Witness ==
    \E j \in Jobs : /\ Len(overdue[j]) = 1
                    /\ Len(inv[j]) > overdue[j][1].fired

\* The time up to which the invocation has been seen running
SeenRunning(r) == IF r.pc = "done" THEN r.retAt ELSE now

\* C6: the k-th warning of an invocation's monitor is for the k-th fire time
\* after t0 and is not logged before that time; a warning has been logged
\* for every fire time after t0 that passed while the invocation was running;
\* no warning is logged when the invocation returns before Next(t0).
C6_StallWarnings ==
    \A j \in Jobs : \A i \in 1..Len(inv[j]) :
        LET r == inv[j][i]
        IN r.mon # "none" =>
             /\ \A k \in 1..Len(r.warns) :
                  /\ r.warns[k].t = NextK(Schedule[j], r.t0, k)
                  /\ r.warns[k].at >= r.warns[k].t
             /\ \A k \in 1..MaxTime :
                  NextK(Schedule[j], r.t0, k) < SeenRunning(r)
                     => k <= Len(r.warns)
             /\ (r.pc = "done" /\ r.retAt < Next(Schedule[j], r.t0))
                     => r.warns = <<>>

\* C6 witness: one invocation is still running after two warnings while
\* another one has returned before its first fire time, without a warning.
C6_Witness ==
    \E j \in Jobs :
        /\ Len(inv[j]) = 2
        /\ inv[j][1].pc = "running" /\ Len(inv[j][1].warns) = 2
        /\ inv[j][2].pc = "done" /\ inv[j][2].err # "spawn"
        /\ inv[j][2].retAt < Next(Schedule[j], inv[j][2].t0)
        /\ inv[j][2].warns = <<>>

\* C10: the step that fires the cancellation token leaves every invocation
\* as it is (child, monitor, warnings), and no step of main ends or removes
\* an invocation whose child is running.
C10_TokenLeavesInvocations ==
    [][/\ (exitCtx = "live" /\ exitCtx' = "done") => inv' = inv
       /\ \A j \in Jobs : \A i \in 1..Len(inv[j]) :
             (inv[j][i].pc = "running" /\ inv'[j] # inv[j])
                => /\ UNCHANGED <<mainPc, exitCtx, termSig, gen>>
                   /\ Len(inv'[j]) >= Len(inv[j])]_vars

\* C10 witness: the token has fired, the loop has stopped scheduling and an
\* invocation fired before is still running, its monitor still warning.
C10_Witness ==
    /\ exitCtx = "done"
    /\ \E j \in Jobs : /\ loop[j].pc = "draining"
                       /\ \E i \in InFlight(j) : /\ inv[j][i].pc = "running"
                                                 /\ inv[j][i].warns # <<>>

\* C11: once the token has fired, every loop reaches Stopped and main's
\* wg.Wait() returns, provided every child exits; a signal that arrives
\* after the token has fired changes nothing but the channel's buffer.
C11_ShutdownCompletes ==
    /\ (exitCtx = "done") ~> (\A j \in tab : loop[j].pc = "stopped")
    /\ (mainPc = "wait") ~> (mainPc \in {"exit", "read"})
    /\ [][(exitCtx = "done" /\ nsig' > nsig)
             => UNCHANGED <<exitCtx, mainPc, wg, loop, inv, overdue>>]_vars

\* C11 witness: main has left after a shutdown during which a second signal
\* arrived and two invocations had been fired.
C11_Witness ==
    /\ mainPc = "exit"
    /\ nsig = 2
    /\ termChan # <<>>
    /\ \E j \in tab : loop[j].pc = "stopped" /\ Len(inv[j]) = 2

\* The time at which the job fires next after invocation r: its next fire
\* time, or under the serialized policy, when r returned later than that,
\* the first fire time after its return.
FiresNext(j, r) ==
    LET n == Next(Schedule[j], r.firedFor)
    IN IF overlapping \/ r.retAt <= n THEN n ELSE Next(Schedule[j], r.retAt)

Failed(r) == r.pc = "done" /\ r.err # "none"

\* C12: a loop leaves its for loop only when the token has fired; the step
\* in which an invocation returns touches neither main nor the token nor
\* another job; and after a failed invocation the job fires again at its
\* next fire time unless the token has fired.
C12_FailureKeepsScheduling ==
    /\ [](\A j \in Jobs :
            /\ loop[j].pc \in {"draining", "stopped"} => exitCtx = "done"
            /\ \A i \in 1..Len(inv[j]) :
                  (Failed(inv[j][i]) /\ i < MaxIter) =>
                     /\ Len(inv[j]) > i =>
                           inv[j][i + 1].firedAt = FiresNext(j, inv[j][i])
                     /\ (exitCtx = "live" /\ now > FiresNext(j, inv[j][i]))
                           => Len(inv[j]) > i)
    /\ [][\A j \in Jobs : \A i \in 1..Len(inv[j]) :
            (inv[j][i].pc # "done" /\ Len(inv'[j]) >= i
                /\ inv'[j][i].pc = "done")
               => /\ UNCHANGED <<mainPc, exitCtx, wg, termChan, overdue>>
                  /\ \A k \in Jobs \ {j} :
                        loop'[k] = loop[k] /\ inv'[k] = inv[k]
                  /\ loop'[j].pc \in {"top", loop[j].pc}]_vars

\* C12 witness: the first invocation of a serialized job failed, the job
\* has fired again on schedule, and so has the other job.
C12_Witness ==
    /\ ~overlapping
    /\ exitCtx = "live"
    /\ Len(inv[1]) = 2
    /\ Failed(inv[1][1])
    /\ inv[1][2].firedAt = FiresNext(1, inv[1][1])
    /\ Len(inv[2]) >= 1

\* The loop of job j is at the top of its for loop and computes nextRun
AtTop(j) == loop[j].pc = "top" /\ loop'[j].nextRun # loop[j].nextRun

\* The overdue branch is taken: a warning, nextRun = now, back to the top
OverdueBranch(j) ==
    /\ Len(overdue'[j]) = Len(overdue[j]) + 1
    /\ overdue'[j][Len(overdue'[j])].missed = Next(Schedule[j], loop[j].nextRun)
    /\ loop'[j].nextRun = now
    /\ loop'[j].pc = "top"
    /\ inv' = inv

\* C13 as stated: a freshly computed nextRun at or before the current time
\* sends the loop into the overdue branch.
C13_NonPositiveDelayOverdue ==
    [][\A j \in Jobs :
         (AtTop(j) /\ Next(Schedule[j], loop[j].nextRun) <= now)
            => OverdueBranch(j)]_vars

\* C13 amended: a freshly computed nextRun before the current time sends
\* the loop into the overdue branch, any other one into the select, to be
\* fired when its time has come (at once when that is the current time);
\* no invocation is fired for a fire time that was found overdue, and none
\* after its fire time.
C13_NegativeDelayOverdue ==
    /\ [][\A j \in Jobs :
            AtTop(j) =>
               IF Next(Schedule[j], loop[j].nextRun) < now
                 THEN OverdueBranch(j)
                 ELSE /\ loop'[j].nextRun = Next(Schedule[j], loop[j].nextRun)
                      /\ loop'[j].pc = "select"
                      /\ UNCHANGED <<overdue, inv>>]_vars
    /\ [](\A j \in Jobs : \A i \in 1..Len(inv[j]) :
            /\ inv[j][i].firedAt = inv[j][i].firedFor
            /\ \A k \in 1..Len(overdue[j]) :
                  inv[j][i].firedFor # overdue[j][k].missed)

\* C13 witness: a job was found overdue and now waits for the first fire
\* time after the time of that check.
C13_Witness ==
    \E j \in Jobs :
        /\ Len(overdue[j]) = 1
        /\ overdue[j][1].late >= 1
        /\ loop[j].pc = "select"
        /\ loop[j].nextRun = Next(Schedule[j], overdue[j][1].at)
        /\ now < loop[j].nextRun

\* C16: under the overlapping policy the loop is never inside a call of
\* runThisJob and never finds a fire time overdue; each invocation is fired
\* at its fire time, which is the schedule's next one after that of the
\* invocation before, whether that one has returned or not; and unless the
\* token has fired no fire time passes without its invocation.
C16_OverlappingFiresOnSchedule ==
    overlapping =>
        \A j \in Jobs :
            /\ loop[j].pc # "call"
            /\ overdue[j] = <<>>
            /\ \A i \in 1..Len(inv[j]) :
                  /\ inv[j][i].firedAt = inv[j][i].firedFor
                  /\ i > 1 => inv[j][i].firedFor =
                                 Next(Schedule[j], inv[j][i - 1].firedFor)
            /\ LET n == Len(inv[j])
               IN (n >= 1 /\ n < MaxIter /\ exitCtx = "live")
                     => now <= Next(Schedule[j], inv[j][n].firedFor)

\* C16 witness: the second invocation of a job was fired on schedule while
\* the first one, already warned about by its monitor, is still running.
C16_Witness ==
    /\ overlapping
    /\ \E j \in Jobs :
          /\ Len(inv[j]) = 2
          /\ inv[j][1].pc = "running" /\ inv[j][1].warns # <<>>
          /\ inv[j][2].pc = "running"
          /\ inv[j][2].firedAt = Next(Schedule[j], inv[j][1].firedFor)

\* The loop of job j is past nextRun := time.Now()
Looping(pc) == pc \notin {"none", "init"}

\* C17: every change of a loop's nextRun is an increase; the fire times of a
\* job's successive invocations increase strictly; under the serialized
\* policy the loop computes a fire time only when no invocation of the job
\* is in flight, and an invocation is fired only when the one before has
\* returned.
C17_NextRunIncreases ==
    /\ [][\A j \in Jobs :
            /\ (Looping(loop[j].pc) /\ Looping(loop'[j].pc))
                  => loop'[j].nextRun >= loop[j].nextRun
            /\ (~overlapping /\ AtTop(j)) => InFlight(j) = {}]_vars
    /\ [](\A j \in Jobs : \A i \in 2..Len(inv[j]) :
            /\ inv[j][i].firedFor > inv[j][i - 1].firedFor
            /\ ~overlapping =>
                  /\ inv[j][i - 1].pc = "done"
                  /\ inv[j][i - 1].retAt <= inv[j][i].firedAt)
    /\ [](\A j \in Jobs : \A k \in 1..Len(overdue[j]) :
            /\ overdue[j][k].at > overdue[j][k].missed
            /\ \A i \in 1..Len(inv[j]) :
                  IF i <= overdue[j][k].fired
                    THEN inv[j][i].firedFor < overdue[j][k].missed
                    ELSE inv[j][i].firedFor > overdue[j][k].at)

\* C17 witness: a serialized job fired, returned late, reset nextRun to the
\* current time and fired again at a later fire time.
C17_Witness ==
    /\ ~overlapping
    /\ \E j \in Jobs :
          /\ Len(inv[j]) = 2 /\ Len(overdue[j]) = 1
          /\ overdue[j][1].fired = 1
          /\ inv[j][1].retAt = overdue[j][1].at
          /\ inv[j][2].firedFor > overdue[j][1].at

\* Nothing of the current generation runs: no loop, no invocation
GenerationOver ==
    /\ \A j \in Jobs : loop[j].pc \in {"none", "stopped"}
    /\ AllDone
    /\ wg = 0

\* C18: main starts a generation (and counts a new one) only when nothing
\* of the generation before is running, after SIGUSR2 and with the token of
\* that generation fired, and gives the new one a fresh token; after SIGINT
\* or SIGTERM it starts no generation.
C18_ReloadAfterDrain ==
    /\ [][/\ (mainPc = "read" /\ mainPc' # "read") =>
               /\ GenerationOver
               /\ gen > 1 => termSig = "SIGUSR2" /\ exitCtx = "done"
               /\ exitCtx' = "live" /\ termChan' = <<>>
               /\ \A j \in Jobs : inv'[j] = <<>>
          /\ gen' # gen =>
               /\ gen' = gen + 1 /\ mainPc' = "read"
               /\ termSig = "SIGUSR2" /\ exitCtx = "done"
               /\ GenerationOver
          /\ termSig \in {"SIGINT", "SIGTERM"} =>
               /\ UNCHANGED <<gen, termSig>>
               /\ mainPc' \in {"wait", "exit"}]_vars
    /\ [](mainPc = "exit" => termSig \in {"SIGINT", "SIGTERM"} /\ GenerationOver)

\* C18 witness: after a reload the second generation is running with its
\* token live and has fired an invocation.
C18_Witness ==
    /\ gen = 2
    /\ mainPc = "sigwait"
    /\ exitCtx = "live"
    /\ \E j \in Jobs : loop[j].pc = "select" /\ InFlight(j) # {}

\* C19: the t0 that an invocation's callback received is the fire time for
\* which the loop fired it.
C19_T0IsFireTime ==
    \A j \in Jobs : \A i \in 1..Len(inv[j]) :
        inv[j][i].pc # "spawned" => inv[j][i].t0 = inv[j][i].firedFor

\* C20: a SIGINT or SIGTERM that was delivered stays in main's channel
\* until main receives it, and main then fires the token on its way to the
\* exit: it is not thrown away.
C20_TermSignalReceived ==
    [][(termChan # <<>> /\ Head(termChan) \in {"SIGINT", "SIGTERM"})
          => \/ termChan' = termChan
             \/ /\ termSig' = Head(termChan)
                /\ exitCtx' = "done"
                /\ mainPc' = "wait"]_vars

\* C14: a monitor logs no warning once its invocation's runJob has returned
\* and cancelMonitor() was called: every warning was logged while the
\* invocation was running.
C14_NoWarningAfterReturn ==
    \A j \in Jobs : \A i \in 1..Len(inv[j]) :
        \A k \in 1..Len(inv[j][i].warns) : inv[j][i].warns[k].running

---------------------------------------------------------------------------
(* Properties of runJob and its drains *)

Started == child.pc # "none"

\* The byte stream that the info records of a channel field stand for:
\* their lines in order, a terminator after each record that ended a line
RECURSIVE Stream(_)
Stream(records) ==
    IF records = <<>> THEN <<>>
    ELSE LET r == Head(records)
         IN (IF r.level = "info"
               THEN r.line \o (IF r.nl THEN <<NL>> ELSE <<>>)
               ELSE <<>>) \o Stream(Tail(records))

IsPrefixOf(a, b) == Len(a) <= Len(b) /\ a = SubSeq(b, 1, Len(a))

\* cmd.Wait() is called only after both drains are done, and when runJob
\* has returned the child has exited
DrainsBeforeWait ==
    /\ (Started /\ rpc \in {"cmdwait", "returned"})
          => \A ch \in Channels : drain[ch].pc = "done"
    /\ (Started /\ rpc = "returned") => child.pc = "exited"

\* C7 as stated: when runJob returns after a successful start, both drains
\* have terminated, the child has exited, and everything the child wrote to
\* a channel has been logged with that channel.
C7_AllLinesDelivered ==
    /\ DrainsBeforeWait
    /\ (Started /\ rpc = "returned")
          => \A ch \in Channels : Stream(rlog[ch]) = written[ch]

\* C7 amended: as C7, with the delivery limited to the streams whose drain
\* ran to end of stream; on a stream whose read failed, what was logged is
\* the beginning of what the child wrote.
C7_LinesDeliveredUnlessReadFails ==
    /\ DrainsBeforeWait
    /\ \A ch \in Channels : IsPrefixOf(Stream(rlog[ch]), written[ch])
    /\ (Started /\ rpc = "returned")
          => \A ch \in Channels :
                drain[ch].cause = "eof" => Stream(rlog[ch]) = written[ch]

\* C7 witness: runJob has returned and the child had written to both
\* channels, several lines to stdout.
C7_Witness ==
    /\ rpc = "returned"
    /\ Started
    /\ nfail = 0
    /\ Len(rlog["stdout"]) >= 2
    /\ Len(rlog["stderr"]) >= 1

SpawnErrors == {"stdoutpipe", "stderrpipe", "start"}

\* C8: when runJob has returned, its error is a spawn error exactly if no
\* child was started, the exit error exactly if the child ran and did not
\* exit with status 0, and none exactly if the child exited with status 0
\* (whatever happened to the drains); after a spawn error there is no child
\* and no drain, and nothing was logged by a drain.
C8_ErrorCases ==
    rpc = "returned" =>
        /\ rerr \in SpawnErrors <=> ~Started
        /\ rerr = "exit" <=> (Started /\ child.status # 0)
        /\ rerr = "none" <=> (Started /\ child.status = 0)
        /\ Started => child.pc = "exited"
        /\ ~Started => /\ \A ch \in Channels : drain[ch].pc = "none"
                       /\ \A ch \in Channels : rlog[ch] = <<>>
                       /\ drainWg = 0

\* C8 witness: the child wrote to both channels and exited with a non-zero
\* status; runJob returned the exit error.
C8_Witness ==
    /\ rpc = "returned"
    /\ rerr = "exit"
    /\ rlog["stdout"] # <<>>
    /\ rlog["stderr"] # <<>>

\* The child has written to ch a line longer than the drain's buffer
LongLine(ch) ==
    \E k \in 1..Len(written[ch]) :
        /\ k + READ_BUFFER_SIZE <= Len(written[ch])
        /\ \A m \in k..(k + READ_BUFFER_SIZE) : written[ch][m] # NL

\* A record that ReadLine returned with isPrefix
Partial(r) ==
    r.level = "info" /\ ~r.nl /\ Len(r.line) = READ_BUFFER_SIZE

\* Every partial record is followed at once by the warning (which the drain
\* is about to log when the record is the last one), every warning follows
\* a partial record, and after it the drain goes on reading.
WarningAfterPartial(ch) ==
    /\ \A k \in 1..Len(rlog[ch]) :
          /\ Partial(rlog[ch][k]) =>
                IF k = Len(rlog[ch]) THEN drain[ch].pc = "warn"
                ELSE rlog[ch][k + 1].level = "warn"
          /\ rlog[ch][k].level = "warn" => k > 1 /\ Partial(rlog[ch][k - 1])
    /\ drain[ch].pc = "warn" =>
          rlog[ch] # <<>> /\ Partial(rlog[ch][Len(rlog[ch])])

\* C9 as stated: once a drain has stopped on a stream with a line longer
\* than its buffer, the partial records and warnings are in place, the
\* records make up what was written, and the drain stopped at end of stream.
C9_LongLineDelivered ==
    \A ch \in Channels :
        /\ WarningAfterPartial(ch)
        /\ (LongLine(ch) /\ drain[ch].pc = "done") =>
              /\ drain[ch].cause = "eof"
              /\ Stream(rlog[ch]) = written[ch]

\* C9 amended: the same, for a drain none of whose reads failed: it cuts
\* the line into full buffers, each followed by the warning, and logs what
\* is left at the end of the line or of the stream.  Whatever the reads
\* did, the warning follows each full buffer and what has been logged is
\* the beginning of what was written.
C9_LongLineDeliveredUnlessReadFails ==
    \A ch \in Channels :
        /\ WarningAfterPartial(ch)
        /\ IsPrefixOf(Stream(rlog[ch]), written[ch])
        /\ ~drain[ch].failed =>
              \A k \in 1..Len(rlog[ch]) :
                  (rlog[ch][k].level = "info" /\ ~rlog[ch][k].nl
                      /\ ~Partial(rlog[ch][k]))
                     => k = Len(rlog[ch]) /\ AtEOF(ch)
        /\ (LongLine(ch) /\ drain[ch].pc = "done" /\ ~drain[ch].failed) =>
              /\ drain[ch].cause = "eof"
              /\ Stream(rlog[ch]) = written[ch]
              /\ \E k \in 1..Len(rlog[ch]) : rlog[ch][k].level = "warn"

\* C9 witness: a line longer than the buffer was logged as a partial
\* record, the warning and a further record, and the drain reached the end
\* of the stream.
C9_Witness ==
    /\ LongLine("stdout")
    /\ drain["stdout"].pc = "done"
    /\ drain["stdout"].cause = "eof"
    /\ ~drain["stdout"].failed
    /\ Len(rlog["stdout"]) = 3
    /\ Partial(rlog["stdout"][1])
    /\ rlog["stdout"][2].level = "warn"
    /\ rlog["stdout"][3].level = "info" /\ rlog["stdout"][3].line # <<>>

\* C15: runJob returns; a pipe that is full is emptied, so that the child
\* is not blocked in a write for ever; and a drain that reads comes to its
\* end.
C15_RunReturns ==
    /\ <>(rpc = "returned")
    /\ \A ch \in Channels :
          /\ (Len(pipe[ch]) >= PipeCap) ~> (Len(pipe[ch]) < PipeCap)
          /\ (drain[ch].pc = "read") ~> (drain[ch].pc = "done")

\* C15 witness: runJob has returned after a child that wrote more to stdout
\* than a pipe holds, and wrote to stderr, without a failed read.
C15_Witness ==
    /\ rpc = "returned"
    /\ nfail = 0
    /\ Len(written["stdout"]) > PipeCap
    /\ Len(written["stderr"]) >= 1
    /\ \A ch \in Channels : Stream(rlog[ch]) = written[ch]

=============================================================================
